---- MODULE Spec2Model ----
(***************************************************************************)
(* A model of app.py, the single-page stock dashboard: the cached fetch    *)
(* get_stock_data, the main loop over TICKERS_CONFIG, the choice of the    *)
(* display window, the RSI(14) / Bollinger(20, 2 sigma) calculation, the   *)
(* advice classifier get_advice and the target flag is_achieved.           *)
(*                                                                         *)
(* Numbers are modelled exactly.  A float is a record [n, d]: n/d with     *)
(* d > 0 in lowest terms, [n |-> 1, d |-> 0] is +inf, [n |-> -1, d |-> 0]  *)
(* is -inf and [n |-> 0, d |-> 0] is NaN; the operations follow IEEE 754   *)
(* on the special values (x/0, 0/0, 100/inf, comparisons with NaN) and are *)
(* exact on the finite ones, so rounding is left out.                      *)
(***************************************************************************)
EXTENDS Integers, Sequences, FiniteSets, TLC

VARIABLES
    \* the cached fetch and the main loop
    now,            \* the clock, in seconds
    cache,          \* st.cache_data's entries of get_stock_data, by key
    runs,           \* script runs started so far
    selected_label, \* the sidebar's display period
    pc,             \* the script's position: "idle", "fetch", "render", "done"
    idx,            \* position of the loop in TICKERS_CONFIG
    df,             \* what get_stock_data returned to the loop
    outcomes,       \* per ticker of this run, in order: the ticker, whether
                    \* its fetch returned data, and its outcome
    faults,         \* provider failures and display errors so far
    last_read,      \* the last get_stock_data call: its key, time and value,
                    \* the cache before it, and the fetches it made
    \* the technical calculation of one ticker
    close_full,     \* df['Close']
    cpc,            \* "none", "fetched", "judged", "windowed"
    rsi_series, upper_s, lower_s,
    current_price, current_rsi, advice,
    w_len,          \* length of the trailing window recomputed alone
    rsi_w, upper_w, lower_w,
    \* the display window of one ticker
    df_index,       \* df.index: timestamps in minutes
    d_label,        \* the display period
    dpc,            \* "none", "fetched", "shown"
    hist_display,   \* the index of hist_display
    \* get_advice on its own
    a_in, a_out,
    \* is_achieved on its own: the input, and the flag once computed
    t_in, t_out

mainVars == <<now, cache, runs, selected_label, pc, idx, df, outcomes,
              faults, last_read>>

calcVars == <<close_full, cpc, rsi_series, upper_s, lower_s,
              current_price, current_rsi, advice, w_len, rsi_w, upper_w, lower_w>>

dispVars == <<df_index, d_label, dpc, hist_display>>

adviceVars == <<a_in, a_out>>

targetVars == <<t_in, t_out>>

vars == <<mainVars, calcVars, dispVars, adviceVars, targetVars>>

----------------------------------------------------------------------------
(* Floats *)

Abs(k) == IF k < 0 THEN -k ELSE k

Sgn(k) == IF k < 0 THEN -1 ELSE IF k > 0 THEN 1 ELSE 0

RECURSIVE GCD(_, _)
GCD(a, b) == IF b = 0 THEN a ELSE GCD(b, a % b)

\* n/d, d > 0, in lowest terms
Rat(n, d) ==
    LET g == GCD(Abs(n), d)
    IN  [n |-> n \div g, d |-> d \div g]

Num(k) == [n |-> k, d |-> 1]

NaN == [n |-> 0, d |-> 0]

Inf(s) == [n |-> s, d |-> 0]

IsNaN(x) == x.d = 0 /\ x.n = 0

IsInf(x) == x.d = 0 /\ x.n # 0

FNeg(a) == [n |-> -a.n, d |-> a.d]

FAdd(a, b) ==
    IF IsNaN(a) \/ IsNaN(b) THEN NaN
    ELSE IF IsInf(a) THEN (IF IsInf(b) /\ b.n # a.n THEN NaN ELSE a)
    ELSE IF IsInf(b) THEN b
    ELSE Rat(a.n * b.d + b.n * a.d, a.d * b.d)

FSub(a, b) == FAdd(a, FNeg(b))

FMul(a, b) ==
    IF IsNaN(a) \/ IsNaN(b) THEN NaN
    ELSE IF IsInf(a) \/ IsInf(b)
         THEN (IF a.n = 0 \/ b.n = 0 THEN NaN ELSE Inf(Sgn(a.n) * Sgn(b.n)))
    ELSE Rat(a.n * b.n, a.d * b.d)

\* x/0 is an infinity, 0/0 and inf/inf are NaN, x/inf is 0: no error is raised
FDiv(a, b) ==
    IF IsNaN(a) \/ IsNaN(b) THEN NaN
    ELSE IF IsInf(a) THEN (IF IsInf(b) THEN NaN
                           ELSE Inf(a.n * (IF b.n < 0 THEN -1 ELSE 1)))
    ELSE IF IsInf(b) THEN Num(0)
    ELSE IF b.n = 0 THEN (IF a.n = 0 THEN NaN ELSE Inf(Sgn(a.n)))
    ELSE Rat(a.n * b.d * Sgn(b.n), a.d * Abs(b.n))

\* a >= b; False when either side is NaN
FGe(a, b) ==
    /\ ~IsNaN(a)
    /\ ~IsNaN(b)
    /\ IF IsInf(a) THEN a.n = 1 \/ b = a
       ELSE IF IsInf(b) THEN b.n = -1
       ELSE a.n * b.d >= b.n * a.d

FLe(a, b) == FGe(b, a)

FGt(a, b) == FGe(a, b) /\ a # b

FLt(a, b) == FGt(b, a)

----------------------------------------------------------------------------
(* pandas Series operations used by the technical calculation.  A Series   *)
(* is a sequence of floats; index i of pandas is position i + 1 here.      *)

\* Series.diff(): NaN at the first position, then x[i] - x[i-1]
Diff(s) ==
    [i \in 1..Len(s) |-> IF i = 1 THEN NaN ELSE FSub(s[i], s[i - 1])]

\* The positive part with a NaN kept, as delta.clip(lower=0) would give it
ClipPositive(s) ==
    [i \in 1..Len(s) |->
        IF IsNaN(s[i]) THEN NaN
        ELSE IF FGt(s[i], Num(0)) THEN s[i] ELSE Num(0)]

\* delta.where(delta > 0, 0): NaN > 0 is False, so a NaN becomes 0
WherePositive(s) ==
    [i \in 1..Len(s) |-> IF FGt(s[i], Num(0)) THEN s[i] ELSE Num(0)]

\* delta.where(delta < 0, 0)
WhereNegative(s) ==
    [i \in 1..Len(s) |-> IF FLt(s[i], Num(0)) THEN s[i] ELSE Num(0)]

\* unary minus on a Series
Negate(s) == [i \in 1..Len(s) |-> FNeg(s[i])]

RECURSIVE SumRange(_, _, _)
SumRange(s, lo, hi) ==
    IF lo > hi THEN Num(0) ELSE FAdd(s[lo], SumRange(s, lo + 1, hi))

\* A mean that needs one observation more before it is defined
RollingMeanLate(s, w) ==
    [i \in 1..Len(s) |->
        IF i <= w THEN NaN ELSE FDiv(SumRange(s, i - w + 1, i), Num(w))]

\* Series.expanding(w).mean(): the mean of everything so far
ExpandingMean(s, w) ==
    [i \in 1..Len(s) |->
        IF i < w THEN NaN ELSE FDiv(SumRange(s, 1, i), Num(i))]

\* Series.rolling(w).mean(): NaN until w observations are in the window
RollingMean(s, w) ==
    [i \in 1..Len(s) |->
        IF i < w THEN NaN ELSE FDiv(SumRange(s, i - w + 1, i), Num(w))]

RECURSIVE SumSqRange(_, _, _)
SumSqRange(s, lo, hi) ==
    IF lo > hi THEN Num(0)
    ELSE FAdd(FMul(s[lo], s[lo]), SumSqRange(s, lo + 1, hi))

\* The mean square of the window, the mean not subtracted
RollingMeanSquare(s, w) ==
    [i \in 1..Len(s) |->
        IF i < w THEN NaN
        ELSE FDiv(SumSqRange(s, i - w + 1, i), Num(w - 1))]

\* The sample variance (ddof = 1) of the trailing window of w observations:
\* the sum of squared deviations from the window's mean, which is the sum
\* of squares less the square of the sum over w, divided by w - 1
RollingVar(s, w) ==
    [i \in 1..Len(s) |->
        IF i < w THEN NaN
        ELSE LET sum == SumRange(s, i - w + 1, i)
                 sq == SumSqRange(s, i - w + 1, i)
             IN  FDiv(FSub(sq, FDiv(FMul(sum, sum), Num(w))), Num(w - 1))]

(* A standard deviation is a square root, kept exact as the float under    *)
(* the root: [sq |-> v] is sqrt(v).  A band is mid + sgn * sqrt(rad).      *)

\* Series.rolling(w).std()
RollingStd(s, w) == [i \in 1..Len(s) |-> [sq |-> RollingVar(s, w)[i]]]

\* std20 * 2
RootTimes(r, k) == [sq |-> FMul(r.sq, Num(k * k))]

\* ma20 + root, ma20 - root
BandOf(m, r, sgn) ==
    IF IsNaN(m) \/ IsNaN(r.sq) THEN [mid |-> NaN, rad |-> NaN, sgn |-> sgn]
    ELSE [mid |-> m, rad |-> r.sq, sgn |-> sgn]

BandIsNaN(b) == IsNaN(b.mid)

\* x >= band, x a finite float; False when the band is NaN
GeBand(x, b) ==
    /\ ~BandIsNaN(b)
    /\ LET e == FSub(x, b.mid)
           e2 == FMul(e, e)
       IN  IF b.sgn = 1 THEN e.n >= 0 /\ FGe(e2, b.rad)
           ELSE e.n >= 0 \/ FLe(e2, b.rad)

\* x <= band
LeBand(x, b) ==
    /\ ~BandIsNaN(b)
    /\ LET e == FSub(x, b.mid)
           e2 == FMul(e, e)
       IN  IF b.sgn = 1 THEN e.n <= 0 \/ FLe(e2, b.rad)
           ELSE e.n <= 0 /\ FGe(e2, b.rad)

----------------------------------------------------------------------------
(* The technical calculation *)

RsiWindow == 14

BandWindow == 20

BandK == 2

RsiHigh == 70

RsiLow == 30

\* delta = close_full.diff()
Delta(c) == Diff(c)

\* gain = (delta.where(delta > 0, 0)).rolling(14).mean()
Gain(c) == RollingMean(WherePositive(Delta(c)), RsiWindow)

\* loss = (-delta.where(delta < 0, 0)).rolling(14).mean()
Loss(c) == RollingMean(Negate(WhereNegative(Delta(c))), RsiWindow)

\* 100 - (100 / (1 + (gain / loss))) at one point
RsiAt(g, l) == FSub(Num(100), FDiv(Num(100), FAdd(Num(1), FDiv(g, l))))

\* rsi_series = 100 - (100 / (1 + (gain / loss)))
RsiSeries(c) ==
    LET g == Gain(c)
        l == Loss(c)
    IN  [i \in 1..Len(c) |-> RsiAt(g[i], l[i])]

\* ma20 = close_full.rolling(20).mean()
Ma20(c) == RollingMean(c, BandWindow)

\* std20 = close_full.rolling(20).std()
Std20(c) == RollingStd(c, BandWindow)

\* upper_s = ma20 + (std20 * 2)
UpperS(c) ==
    LET m == Ma20(c)
        sd == Std20(c)
    IN  [i \in 1..Len(c) |-> BandOf(m[i], RootTimes(sd[i], BandK), 1)]

\* lower_s = ma20 - (std20 * 2)
LowerS(c) ==
    LET m == Ma20(c)
        sd == Std20(c)
    IN  [i \in 1..Len(c) |-> BandOf(m[i], RootTimes(sd[i], BandK), -1)]

\* get_advice with strict comparisons: a value on a threshold is neutral
get_advice_strict(price, rsi, upper, lower) ==
    IF FGt(rsi, Num(RsiHigh)) \/ (GeBand(price, upper) /\ ~LeBand(price, upper))
    THEN "error"
    ELSE IF FLt(rsi, Num(RsiLow)) \/ (LeBand(price, lower) /\ ~GeBand(price, lower))
    THEN "success"
    ELSE "info"

\* get_advice, by the style it returns: "error" is the sell advice
\* (overbought), "success" the buy advice (oversold), "info" neutral
get_advice(price, rsi, upper, lower) ==
    IF FGe(rsi, Num(RsiHigh)) \/ GeBand(price, upper) THEN "error"
    ELSE IF FLe(rsi, Num(RsiLow)) \/ LeBand(price, lower) THEN "success"
    ELSE "info"

----------------------------------------------------------------------------
(* The technical calculation of one ticker, lines 96 to 110, for a fetched *)
(* series whose display window ends at its last row, as every df.tail      *)
(* does.  The closes are small integers: two runs of equal steps.          *)

MaxLen == 22

Slopes == {-1, 0, 1, 2}

Min(a, b) == IF a < b THEN a ELSE b

Max(a, b) == IF a > b THEN a ELSE b

\* A close series: n1 steps of s1, then n2 steps of s2, its lowest close 10
SeriesOf(s1, n1, s2, n2) ==
    LET low == Min(0, Min(s1 * n1, s1 * n1 + s2 * n2))
    IN  [i \in 1..(1 + n1 + n2) |->
            Num(10 - low + s1 * Min(i - 1, n1) + s2 * Max(0, i - 1 - n1))]

\* PriceSeries: positive finite closes
Positive(c) == \A i \in 1..Len(c) : c[i].n > 0

\* Series.tail(k)
Tail_(s, k) == SubSeq(s, Max(1, Len(s) - k + 1), Len(s))

IdleCalc ==
    /\ close_full = << >>
    /\ cpc = "none"
    /\ rsi_series = << >>
    /\ upper_s = << >>
    /\ lower_s = << >>
    /\ current_price = NaN
    /\ current_rsi = NaN
    /\ advice = "none"
    /\ w_len = 0
    /\ rsi_w = << >>
    /\ upper_w = << >>
    /\ lower_w = << >>

\* df as get_stock_data returned it: not None and not empty
InitCalc ==
    /\ \E s1 \in Slopes, s2 \in Slopes,
          n1 \in 0..(MaxLen - 1), n2 \in 0..(MaxLen - 1) :
            /\ 1 + n1 + n2 <= MaxLen
            /\ Positive(SeriesOf(s1, n1, s2, n2))
            /\ close_full = SeriesOf(s1, n1, s2, n2)
    /\ cpc = "fetched"
    /\ rsi_series = << >>
    /\ upper_s = << >>
    /\ lower_s = << >>
    /\ current_price = NaN
    /\ current_rsi = NaN
    /\ advice = "none"
    /\ w_len = 0
    /\ rsi_w = << >>
    /\ upper_w = << >>
    /\ lower_w = << >>

\* Lines 96 to 110: the indicators on the full series, the values at the
\* last point, and the advice
Calculate ==
    /\ cpc = "fetched"
    /\ LET n == Len(close_full)
           r == RsiSeries(close_full)
           u == UpperS(close_full)
           l == LowerS(close_full)
       IN  /\ rsi_series' = r
           /\ upper_s' = u
           /\ lower_s' = l
           /\ current_price' = close_full[n]
           /\ current_rsi' = r[n]
           /\ advice' = get_advice(close_full[n], r[n], u[n], l[n])
    /\ cpc' = "judged"
    /\ UNCHANGED <<close_full, w_len, rsi_w, upper_w, lower_w>>

\* The same calculation on the trailing window of k rows alone
Recompute(k) ==
    /\ cpc = "judged"
    /\ k \in 1..Len(close_full)
    /\ LET w == Tail_(close_full, k)
       IN  /\ rsi_w' = RsiSeries(w)
           /\ upper_w' = UpperS(w)
           /\ lower_w' = LowerS(w)
    /\ w_len' = k
    /\ cpc' = "windowed"
    /\ UNCHANGED <<close_full, rsi_series, upper_s, lower_s,
                   current_price, current_rsi, advice>>

----------------------------------------------------------------------------
(* Configuration.  The labels of PERIOD_OPTIONS are written "6mo", "3mo",  *)
(* "1mo", "1wk" and "1day" (the last is the one-day period, the label the  *)
(* code compares selected_label with); the types of TICKERS_CONFIG are     *)
(* written "sell" and "buy" ("buy" is the type the code compares with).    *)

TickerOrder == <<"5970.T", "7272.T", "8306.T", "8316.T", "9101.T">>

TICKERS_CONFIG ==
    [t \in {TickerOrder[i] : i \in 1..Len(TickerOrder)} |->
        CASE t = "5970.T" -> [target |-> 2070, type |-> "sell"]
          [] t = "7272.T" -> [target |-> 1225, type |-> "sell"]
          [] t = "8306.T" -> [target |-> 3050, type |-> "sell"]
          [] t = "8316.T" -> [target |-> 5700, type |-> "sell"]
          [] t = "9101.T" -> [target |-> 4950, type |-> "buy"]]

Labels == {"6mo", "3mo", "1mo", "1wk", "1day"}

PERIOD_OPTIONS ==
    [l \in Labels |->
        CASE l = "6mo" -> [days |-> 180, interval |-> "1d"]
          [] l = "3mo" -> [days |-> 90, interval |-> "1d"]
          [] l = "1mo" -> [days |-> 30, interval |-> "1d"]
          [] l = "1wk" -> [days |-> 7, interval |-> "30m"]
          [] l = "1day" -> [days |-> 1, interval |-> "5m"]]

----------------------------------------------------------------------------
(* The display window of one ticker, lines 87 to 95.  df.index is a        *)
(* sequence of timestamps in minutes, strictly increasing.                 *)

MinutesPerDay == 24 * 60

\* last_dt.replace(hour=9, minute=0, second=0)
DayStart(dt) == (dt \div MinutesPerDay) * MinutesPerDay + 9 * 60

\* last_dt.replace(hour=15, minute=30, second=0)
DayEnd(dt) == (dt \div MinutesPerDay) * MinutesPerDay + 15 * 60 + 30

IntradayRows == 100

FallbackRows == 50

\* df.loc[a:b] on a sorted index: the rows with a <= timestamp <= b
LocSlice(ix, a, b) == SelectSeq(ix, LAMBDA t : a <= t /\ t <= b)

\* hist_display, by its index
HistDisplay(ix, label) ==
    LET v == PERIOD_OPTIONS[label]
        last_dt == ix[Len(ix)]
        h == IF label = "1day"
             THEN LocSlice(ix, DayStart(last_dt), DayEnd(last_dt))
             ELSE Tail_(ix, IF v.interval = "1d" THEN v.days ELSE IntradayRows)
    IN  IF h = << >> THEN Tail_(ix, FallbackRows) ELSE h

MaxPrior == 200

\* Rows before the last day: none, fewer than any tail, more than any tail
PriorRows == {0, 60, MaxPrior}

\* Times of the last day's rows: 08:55, 09:00, 15:25, 15:30, 15:35
DayMinutes == {8 * 60 + 55, 9 * 60, 15 * 60 + 25, 15 * 60 + 30, 15 * 60 + 35}

RECURSIVE Ascending(_)
Ascending(S) ==
    IF S = {} THEN << >>
    ELSE LET m == CHOOSE x \in S : \A y \in S : x <= y
         IN  <<m>> \o Ascending(S \ {m})

\* k rows on day 0, then the rows of day 1 at the minutes of S
IndexOf(k, S) ==
    [i \in 1..k |-> i] \o [i \in 1..Cardinality(S) |-> MinutesPerDay + Ascending(S)[i]]

IdleDisp ==
    /\ df_index = << >>
    /\ d_label = "none"
    /\ dpc = "none"
    /\ hist_display = << >>

InitDisp ==
    /\ \E k \in PriorRows, S \in (SUBSET DayMinutes) \ {{}} :
            df_index = IndexOf(k, S)
    /\ d_label \in Labels
    /\ dpc = "fetched"
    /\ hist_display = << >>

Select ==
    /\ dpc = "fetched"
    /\ hist_display' = HistDisplay(df_index, d_label)
    /\ dpc' = "shown"
    /\ UNCHANGED <<df_index, d_label>>

----------------------------------------------------------------------------
(* get_advice on its own inputs *)

RsiInputs == {29, 30, 31, 50, 69, 70, 71}

PriceInputs == 17..23

BandInputs == {18, 20, 22}

\* The band of value x, as the sum mid + sgn * sqrt(4) the calculation forms
BandValue(x, sgn) ==
    IF IsNaN(x) THEN BandOf(NaN, [sq |-> NaN], sgn)
    ELSE BandOf(FSub(x, Num(sgn * 2)), [sq |-> Num(4)], sgn)

Floats(S) == {Num(k) : k \in S} \cup {NaN}

IdleAdvice ==
    /\ a_in = [price |-> NaN, rsi |-> NaN, upper |-> NaN, lower |-> NaN]
    /\ a_out = "none"

InitAdvice ==
    /\ a_in \in [price : {Num(k) : k \in PriceInputs},
                 rsi : Floats(RsiInputs),
                 upper : Floats(BandInputs),
                 lower : Floats(BandInputs)]
    /\ a_out = "none"

Advise ==
    /\ a_out = "none"
    /\ a_out' = get_advice(a_in.price, a_in.rsi,
                           BandValue(a_in.upper, 1), BandValue(a_in.lower, -1))
    /\ UNCHANGED a_in

----------------------------------------------------------------------------
(* The target flag, line 116 *)

\* is_achieved with strict comparisons
is_achieved_strict(price, info) ==
    IF info.type = "buy" THEN price < info.target ELSE price > info.target

\* is_achieved = (current_price <= target_price) if target_type == '購入'
\*               else (current_price >= target_price)
is_achieved(price, info) ==
    IF info.type = "buy" THEN price <= info.target ELSE price >= info.target

MaxOff == 2

Tickers == DOMAIN TICKERS_CONFIG

\* Prices at and around every target
TargetPrices ==
    {TICKERS_CONFIG[t].target + d : t \in Tickers, d \in (0 - MaxOff)..MaxOff}

IdleTarget ==
    /\ t_in = [ticker |-> "none", price |-> 0]
    /\ t_out = << >>

InitTarget ==
    /\ t_in \in [ticker : Tickers, price : TargetPrices]
    /\ t_out = << >>

Achieve ==
    /\ t_out = << >>
    /\ t_out' = <<is_achieved(t_in.price, TICKERS_CONFIG[t_in.ticker])>>
    /\ UNCHANGED t_in

----------------------------------------------------------------------------
(* The cached fetch, lines 45 to 63, and the main loop, lines 73 to 160.   *)
(* A value get_stock_data returns is [ok, asof]: ok is FALSE for           *)
(* (None, None), and asof is the time of the execution of the body that    *)
(* made it, so that the data of two fetches differ.  MaxRuns bounds the    *)
(* script runs of a behaviour and MaxFaults the provider failures and      *)
(* display errors in it.  What the try block computes for a ticker is the  *)
(* subject of SpecCalc and SpecDisplay; here it completes or raises.       *)

TTL == 900

MaxRuns == 2

MaxFaults == 1

\* st.cache_data keys an entry by the arguments of the call
CacheKey(ticker_symbol, interval) == <<ticker_symbol, interval>>

\* An entry still served at the age of exactly the ttl
CacheHitLate(c, key, t) == key \in DOMAIN c /\ t - c[key].at <= TTL

\* An entry is served while it is younger than the ttl
CacheHit(c, key, t) == key \in DOMAIN c /\ t - c[key].at < TTL

\* What the provider does in one execution of the body: the first history
\* call raises, returns an empty frame, or returns rows; then the second
\* history call (the daily closes) raises or returns
ProviderResults == {"raise", "empty", "raise2", "ok"}

\* The body of get_stock_data: (None, None) unless both calls return rows
BodyValue(r, t) == [ok |-> r = "ok", asof |-> t]

\* tk.history calls of one execution of the body
BodyCalls(r) == IF r \in {"raise", "empty"} THEN 1 ELSE 2

\* A failing ticker ends the loop, as an exception that nothing catches would
NextPcAbort(i, failed) ==
    IF failed \/ i = Len(TickerOrder) THEN "done" ELSE "fetch"

\* Where the loop goes after a ticker: 'continue', the end of the try
\* block and the except clause all lead to the next ticker
NextPc(i, failed) == IF i = Len(TickerOrder) THEN "done" ELSE "fetch"

NextIdx(i) == IF i = Len(TickerOrder) THEN i ELSE i + 1

NoRead == [ticker |-> "none", interval |-> "none", hit |-> FALSE,
           val |-> [ok |-> FALSE, asof |-> 0], at |-> 0,
           before |-> << >>, calls |-> 0, fetches |-> 0]

IdleMain ==
    /\ now = 0
    /\ cache = << >>
    /\ runs = 0
    /\ selected_label = "1mo"
    /\ pc = "idle"
    /\ idx = 1
    /\ df = [ok |-> FALSE, asof |-> 0]
    /\ outcomes = << >>
    /\ faults = 0
    /\ last_read = NoRead

\* Time between two runs: none, and the ages around the ttl of the entries
\* a run of Len(TickerOrder) seconds left behind
Gaps == {0, TTL - Len(TickerOrder) - 1, TTL - Len(TickerOrder)}

\* The script runs: the sidebar's period is read and the loop starts
StartRun(label, gap) ==
    /\ pc \in {"idle", "done"}
    /\ runs < MaxRuns
    /\ runs' = runs + 1
    /\ now' = now + gap
    /\ selected_label' = label
    /\ idx' = 1
    /\ outcomes' = << >>
    /\ pc' = "fetch"
    /\ UNCHANGED <<cache, df, faults, last_read>>

\* Lines 76 to 82: get_stock_data through the cache, the sleep of one
\* second, and the warning and 'continue' when there is no data
Fetch(r) ==
    /\ pc = "fetch"
    /\ LET ticker == TickerOrder[idx]
           interval == PERIOD_OPTIONS[selected_label].interval
           key == CacheKey(ticker, interval)
           hit == CacheHit(cache, key, now)
           val == IF hit THEN cache[key].val ELSE BodyValue(r, now)
       IN  /\ hit => r = "ok"
           /\ (~hit /\ r # "ok") => faults < MaxFaults
           /\ cache' = IF hit THEN cache
                       ELSE [k \in DOMAIN cache \cup {key} |->
                               IF k = key THEN [val |-> val, at |-> now]
                               ELSE cache[k]]
           /\ faults' = IF ~hit /\ r # "ok" THEN faults + 1 ELSE faults
           /\ last_read' = [ticker |-> ticker, interval |-> interval,
                            hit |-> hit, val |-> val, at |-> now,
                            before |-> cache,
                            calls |-> IF hit THEN 0 ELSE BodyCalls(r),
                            fetches |-> IF hit THEN 0 ELSE 1]
           /\ df' = val
           /\ now' = now + 1
           /\ IF val.ok
              THEN /\ pc' = "render"
                   /\ UNCHANGED <<idx, outcomes>>
              ELSE /\ outcomes' = Append(outcomes,
                                     [ticker |-> ticker, data |-> val.ok,
                                      outcome |-> "skipped"])
                   /\ pc' = NextPc(idx, TRUE)
                   /\ idx' = NextIdx(idx)
    /\ UNCHANGED <<runs, selected_label>>

\* Lines 84 to 160: the try block either completes or raises an exception
\* that the except clause reports
Render(raised) ==
    /\ pc = "render"
    /\ raised => faults < MaxFaults
    /\ faults' = IF raised THEN faults + 1 ELSE faults
    /\ outcomes' = Append(outcomes,
                      [ticker |-> TickerOrder[idx], data |-> df.ok,
                       outcome |-> IF raised THEN "error" ELSE "rendered"])
    /\ pc' = NextPc(idx, raised)
    /\ idx' = NextIdx(idx)
    /\ UNCHANGED <<now, cache, runs, selected_label, df, last_read>>

----------------------------------------------------------------------------
(* Specifications *)

Init == IdleMain /\ IdleCalc /\ IdleDisp /\ IdleAdvice /\ IdleTarget

Next ==
    \/ \E label \in Labels, gap \in Gaps :
          StartRun(label, gap) /\ UNCHANGED <<calcVars, dispVars, adviceVars, targetVars>>
    \/ \E r \in ProviderResults :
          Fetch(r) /\ UNCHANGED <<calcVars, dispVars, adviceVars, targetVars>>
    \/ \E raised \in BOOLEAN :
          Render(raised) /\ UNCHANGED <<calcVars, dispVars, adviceVars, targetVars>>

Spec == Init /\ [][Next]_vars

InitCalcSpec == IdleMain /\ InitCalc /\ IdleDisp /\ IdleAdvice /\ IdleTarget

NextCalc ==
    \/ Calculate /\ UNCHANGED <<mainVars, dispVars, adviceVars, targetVars>>
    \/ \E k \in 1..MaxLen :
          Recompute(k) /\ UNCHANGED <<mainVars, dispVars, adviceVars, targetVars>>

SpecCalc == InitCalcSpec /\ [][NextCalc]_vars

InitDispSpec == IdleMain /\ IdleCalc /\ InitDisp /\ IdleAdvice /\ IdleTarget

NextDisp == Select /\ UNCHANGED <<mainVars, calcVars, adviceVars, targetVars>>

SpecDisplay == InitDispSpec /\ [][NextDisp]_vars

InitAdviceSpec == IdleMain /\ IdleCalc /\ IdleDisp /\ InitAdvice /\ IdleTarget

NextAdvice == Advise /\ UNCHANGED <<mainVars, calcVars, dispVars, targetVars>>

SpecAdvice == InitAdviceSpec /\ [][NextAdvice]_vars

InitTargetSpec == IdleMain /\ IdleCalc /\ IdleDisp /\ IdleAdvice /\ InitTarget

NextTarget == Achieve /\ UNCHANGED <<mainVars, calcVars, dispVars, adviceVars>>

SpecTarget == InitTargetSpec /\ [][NextTarget]_vars

----------------------------------------------------------------------------
(* Claims on get_advice, under SpecAdvice *)

Styles == {"error", "success", "info"}

AdviceDefined ==
    /\ ~IsNaN(a_in.rsi)
    /\ ~IsNaN(a_in.upper)
    /\ ~IsNaN(a_in.lower)

\* The overbought and the oversold condition of the rule, on the integers
\* the inputs were drawn from
Overbought == a_in.rsi.n >= 70 \/ a_in.price.n >= a_in.upper.n

Oversold == a_in.rsi.n <= 30 \/ a_in.price.n <= a_in.lower.n

\* C1: on defined numeric inputs get_advice returns the sell advice
\* (overbought) whenever rsi >= 70 or price >= upper, otherwise the buy
\* advice (oversold) whenever rsi <= 30 or price <= lower, otherwise neutral;
\* one outcome for every input, thresholds inclusive, overbought first.
C1_FirstMatch ==
    (a_out # "none" /\ AdviceDefined) =>
        /\ a_out \in Styles
        /\ Overbought => a_out = "error"
        /\ (~Overbought /\ Oversold) => a_out = "success"
        /\ (~Overbought /\ ~Oversold) => a_out = "info"

\* An overbought and an oversold condition hold together, on a boundary
C1_Witness ==
    /\ a_out = "error"
    /\ AdviceDefined
    /\ a_in.rsi.n = 70
    /\ a_in.price.n < a_in.upper.n
    /\ a_in.price.n <= a_in.lower.n

----------------------------------------------------------------------------
(* Claims on is_achieved, under SpecTarget *)

\* C2: for every ticker of TICKERS_CONFIG and every price, is_achieved is
\* true exactly when the type is buy and price <= target, or the type is
\* sell and price >= target; both inclusive at equality.
C2_TargetFlag ==
    t_out # << >> =>
        LET info == TICKERS_CONFIG[t_in.ticker]
        IN  t_out[1] = (\/ info.type = "buy" /\ t_in.price <= info.target
                        \/ info.type = "sell" /\ t_in.price >= info.target)

\* A buy target met at equality
C2_Witness ==
    /\ t_out = <<TRUE>>
    /\ TICKERS_CONFIG[t_in.ticker].type = "buy"
    /\ t_in.price = TICKERS_CONFIG[t_in.ticker].target

----------------------------------------------------------------------------
(* Claims on the main loop and the cache, under Spec *)

InLoop == pc \in {"fetch", "render"}

\* C3: in one run every ticker of TICKERS_CONFIG is processed once, in
\* configuration order, and ends in exactly one outcome: skipped when the
\* fetch returned no data, rendered, or a display error; a failed fetch, an
\* empty result or an exception while rendering one ticker never keeps a later
\* ticker from being processed: the loop can always go on, and it ends only
\* with all tickers done.
C3_Isolation ==
    /\ InLoop => Len(outcomes) = idx - 1
    /\ InLoop => ENABLED Next
    /\ pc = "done" => Len(outcomes) = Len(TickerOrder)
    /\ \A k \in 1..Len(outcomes) :
          /\ outcomes[k].ticker = TickerOrder[k]
          /\ outcomes[k].outcome \in {"skipped", "rendered", "error"}
          /\ outcomes[k].outcome = "skipped" <=> ~outcomes[k].data

\* A run that ended after a ticker failed and a later one was rendered
C3_Witness ==
    /\ pc = "done"
    /\ \E k \in 1..(Len(outcomes) - 1) :
          /\ outcomes[k].outcome \in {"skipped", "error"}
          /\ outcomes[k + 1].outcome = "rendered"

\* The entry of the last read's key as the cache held it before the read
ReadKey == <<last_read.ticker, last_read.interval>>

ReadFresh ==
    /\ ReadKey \in DOMAIN last_read.before
    /\ last_read.at - last_read.before[ReadKey].at < 900

----------------------------------------------------------------------------
(* Claims on the technical calculation, under SpecCalc.  Positions count   *)
(* from 1: position 14 is the point of index 13, position 20 of index 19.  *)

Calculated == cpc \in {"judged", "windowed"}

N == Len(close_full)

\* The rise and the fall from position j - 1 to position j, as integers
Rise(c, j) == Max(c[j].n - c[j - 1].n, 0)

Fall(c, j) == Max(c[j - 1].n - c[j].n, 0)

RECURSIVE SumRise(_, _, _)
SumRise(c, lo, hi) ==
    IF lo > hi THEN 0 ELSE Rise(c, lo) + SumRise(c, lo + 1, hi)

RECURSIVE SumFall(_, _, _)
SumFall(c, lo, hi) ==
    IF lo > hi THEN 0 ELSE Fall(c, lo) + SumFall(c, lo + 1, hi)

\* The rises and falls in the trailing 14 positions of position i; position 1
\* has no predecessor and adds nothing
WindowRise(c, i) == SumRise(c, Max(2, i - 13), i)

WindowFall(c, i) == SumFall(c, Max(2, i - 13), i)

\* C5: wherever the window of 14 is filled and its average loss is zero, the
\* RSI of that point, and the RSI passed to get_advice, is 100.
C5_ZeroLossIsHundred ==
    Calculated =>
        /\ \A i \in 14..N :
              WindowFall(close_full, i) = 0 => rsi_series[i] = Num(100)
        /\ (N >= 14 /\ WindowFall(close_full, N) = 0) => current_rsi = Num(100)

Constant(c) == \A i \in 1..Len(c) : c[i] = c[1]

\* C6: for a series of 20 or more equal closes the calculation and the
\* advice complete, the RSI of the last point is undefined (0/0), and the
\* upper and the lower band of the last point both equal the price, the
\* standard deviation being 0.
C6_ConstantSeries ==
    (Calculated /\ N >= 20 /\ Constant(close_full)) =>
        /\ IsNaN(rsi_series[N])
        /\ IsNaN(current_rsi)
        /\ upper_s[N] = [mid |-> close_full[N], rad |-> Num(0), sgn |-> 1]
        /\ lower_s[N] = [mid |-> close_full[N], rad |-> Num(0), sgn |-> -1]
        /\ advice \in Styles

C6_Witness ==
    /\ cpc = "judged"
    /\ N >= 20
    /\ Constant(close_full)
    /\ IsNaN(current_rsi)

\* Rows of the full series before the trailing window
Off == N - w_len

\* C7 as stated: on a trailing window alone the RSI, from the position where
\* the window defines it (14), and the bands, from the position where the
\* window defines them (20), equal those of the full series at the same row.
C7_WindowEqualsFull ==
    cpc = "windowed" =>
        \A j \in 1..w_len :
            /\ j >= 14 => rsi_w[j] = rsi_series[Off + j]
            /\ j >= 20 => /\ upper_w[j] = upper_s[Off + j]
                          /\ lower_w[j] = lower_s[Off + j]

\* C7 as amended: the RSI of the window equals that of the full series from
\* position 15 of the window on (14 differences inside the window), the
\* bands from position 20 on; up to there the window's values are NaN, but
\* for the RSI of position 14.
C7_WindowEqualsFullAmended ==
    cpc = "windowed" =>
        \A j \in 1..w_len :
            /\ j >= 15 => rsi_w[j] = rsi_series[Off + j]
            /\ j >= 20 => /\ upper_w[j] = upper_s[Off + j]
                          /\ lower_w[j] = lower_s[Off + j]
            /\ j <= 13 => IsNaN(rsi_w[j])
            /\ j <= 19 => BandIsNaN(upper_w[j]) /\ BandIsNaN(lower_w[j])

\* A proper window with defined bands whose RSI at position 14 differs from
\* the full series' and at its last row is strictly between 0 and 100
C7_Witness ==
    /\ cpc = "windowed"
    /\ w_len >= 20
    /\ Off >= 1
    /\ rsi_w[14] # rsi_series[Off + 14]
    /\ ~IsNaN(rsi_w[w_len])
    /\ rsi_w[w_len] \notin {Num(0), Num(100)}
    /\ upper_w[w_len].rad.n > 0

StrictlyIncreasing(c) == \A i \in 2..Len(c) : c[i].n > c[i - 1].n

StrictlyDecreasing(c) == \A i \in 2..Len(c) : c[i].n < c[i - 1].n

TenToThirty == [i \in 1..21 |-> Num(9 + i)]

\* C8: for a strictly increasing series the RSI is 100 at every point from
\* position 14 on, for a strictly decreasing one it is 0; for the closes
\* 10, 11, ..., 30 the RSI of the last point is 100 and the upper band is
\* above the lower band.
C8_Monotone ==
    Calculated =>
        /\ StrictlyIncreasing(close_full) =>
              \A i \in 14..N : rsi_series[i] = Num(100)
        /\ StrictlyDecreasing(close_full) =>
              \A i \in 14..N : rsi_series[i] = Num(0)
        /\ close_full = TenToThirty =>
              /\ current_rsi = Num(100)
              /\ upper_s[N].mid = lower_s[N].mid
              /\ upper_s[N].rad.n > 0
              /\ lower_s[N].rad.n > 0

C8_Witness ==
    /\ cpc = "judged"
    /\ close_full = TenToThirty
    /\ current_rsi = Num(100)

\* The RSI of position i >= 14 from the rises and falls of its window
RsiFrom(g, l) ==
    IF g = 0 /\ l = 0 THEN NaN
    ELSE IF l = 0 THEN Num(100)
    ELSE Rat(100 * g, g + l)

\* C9: the RSI is undefined at positions 1 to 13 and computed from position
\* 14 on, from the rises and falls of the trailing 14 positions with the
\* first position counted as no rise and no fall; the bands are undefined at
\* positions 1 to 19 and defined from position 20 on.
C9_WarmUp ==
    Calculated =>
        \A i \in 1..N :
            /\ i <= 13 => IsNaN(rsi_series[i])
            /\ i >= 14 => rsi_series[i] = RsiFrom(WindowRise(close_full, i),
                                                  WindowFall(close_full, i))
            /\ i <= 19 <=> BandIsNaN(upper_s[i])
            /\ i <= 19 <=> BandIsNaN(lower_s[i])

\* The RSI of position 14 is a number made of thirteen differences
C9_Witness ==
    /\ cpc = "judged"
    /\ N >= 20
    /\ WindowRise(close_full, 14) > 0
    /\ WindowFall(close_full, 14) > 0
    /\ rsi_series[14] = Rat(100 * WindowRise(close_full, 14), 13)
    /\ ~BandIsNaN(upper_s[20])

----------------------------------------------------------------------------
(* Claims on the display window, under SpecDisplay *)

\* C10: for every fetched series and every display period the last row of
\* hist_display, whose close is the current price, is the last row of df,
\* whose RSI and bands go to get_advice with it.
C10_LatestPoint ==
    dpc = "shown" =>
        /\ hist_display # << >>
        /\ hist_display[Len(hist_display)] = df_index[Len(df_index)]

====
